---- MODULE Spec2Model ----
(***************************************************************************)
(* JWE envelope parsing and serialization (src/jwe.go): ParseEncrypted     *)
(* (compact and full JSON), CompactSerialize, FullSerialize, mergedHeaders *)
(* and computeAuthData.                                                    *)
(*                                                                         *)
(* Representation.                                                         *)
(*  - A Go pointer or slice that may be nil is a sequence of length 0      *)
(*    (nil) or 1 (<<v>>): Nil is <<>>, Some(v) is <<v>>.                   *)
(*  - A string is a sequence of characters; a character is a number:       *)
(*    0..63 is the index of a letter of the base64url alphabet, and DOT,   *)
(*    SPACE, LBRACE, BANG are '.', white space, '{' and '!'.               *)
(*  - A byte is a number in 0..255.                                        *)
(*  - The JSON text of a header is a byte string holding one byte per      *)
(*    lexical item: TokLB '{', TokRB '}', TokWS white space, TokNull the   *)
(*    literal null, TokAlg1/TokAlg2/TokEnc1 the members "alg":"A1",        *)
(*    "alg":"A2", "enc":"E1", TokBad anything that is not JSON.            *)
(*  - The JSON text of a whole message is the character LBRACE with the    *)
(*    object's members kept as a record (field json of a Text).            *)
(***************************************************************************)
EXTENDS Integers, Sequences, FiniteSets, TLC

\* ------------------------------------------------------------- bounds
MaxParts == 6
MaxRecipients == 2
MaxMembers == 2
MaxBytes == 1

\* --------------------------------------------------------- characters
DOT == 64
SPACE == 65
LBRACE == 66
BANG == 67

TokLB == 123
TokRB == 125
TokWS == 32
TokNull == 110
TokAlg1 == 1
TokAlg2 == 2
TokEnc1 == 3
TokBad == 255

Nil == <<>>
Some(v) == <<v>>
IsNil(p) == Len(p) = 0
Val(p) == p[1]

\* ------------------------------------------------------------ base64url
\* base64.URLEncoding.EncodeToString with the trailing '=' trimmed.
RECURSIVE base64URLEncode(_)
base64URLEncode(b) ==
  IF Len(b) = 0 THEN <<>>
  ELSE IF Len(b) = 1 THEN << b[1] \div 4, (b[1] % 4) * 16 >>
  ELSE IF Len(b) = 2 THEN
    << b[1] \div 4, (b[1] % 4) * 16 + (b[2] \div 16), (b[2] % 16) * 4 >>
  ELSE
    << b[1] \div 4, (b[1] % 4) * 16 + (b[2] \div 16),
       (b[2] % 16) * 4 + (b[3] \div 64), b[3] % 64 >>
    \o base64URLEncode(SubSeq(b, 4, Len(b)))

\* The bytes of a text whose characters are all letters of the alphabet and
\* whose length is not 1 modulo 4; the spare low bits of the last letter of a
\* short final group are dropped (Go's decoder is not strict).
RECURSIVE DecodeGroups(_)
DecodeGroups(s) ==
  IF Len(s) = 0 THEN <<>>
  ELSE IF Len(s) = 2 THEN << s[1] * 4 + (s[2] \div 16) >>
  ELSE IF Len(s) = 3 THEN
    << s[1] * 4 + (s[2] \div 16), (s[2] % 16) * 16 + (s[3] \div 4) >>
  ELSE
    << s[1] * 4 + (s[2] \div 16), (s[2] % 16) * 16 + (s[3] \div 4),
       (s[3] % 4) * 64 + s[4] >>
    \o DecodeGroups(SubSeq(s, 5, Len(s)))

ValidBase64(s) ==
  /\ \A i \in 1..Len(s) : s[i] \in 0..63
  /\ Len(s) % 4 # 1

\* base64URLDecode: pads with '=' to a multiple of four and decodes.
base64URLDecode(s) ==
  IF ValidBase64(s) THEN [err |-> FALSE, data |-> DecodeGroups(s)]
  ELSE [err |-> TRUE, data |-> <<>>]

\* --------------------------------------------------------- strings
stripWhitespace(s) == SelectSeq(s, LAMBDA c : c # SPACE)

HasPrefix(s, c) == Len(s) > 0 /\ s[1] = c

\* strings.Split(s, sep) for a one-character separator.
RECURSIVE SplitFrom(_, _, _)
SplitFrom(s, sep, cur) ==
  IF Len(s) = 0 THEN << cur >>
  ELSE IF s[1] = sep THEN << cur >> \o SplitFrom(Tail(s), sep, <<>>)
  ELSE SplitFrom(Tail(s), sep, Append(cur, s[1]))

Split(s, sep) == SplitFrom(s, sep, <<>>)

RECURSIVE Join(_, _)
Join(parts, sep) ==
  IF Len(parts) = 0 THEN <<>>
  ELSE IF Len(parts) = 1 THEN parts[1]
  ELSE parts[1] \o << sep >> \o Join(Tail(parts), sep)

\* ------------------------------------------------------------- headers
\* Header: the fields the code reads (Alg, Enc); "" is the zero value, which
\* omitempty leaves out of the JSON text.
EmptyHeader == [alg |-> "", enc |-> ""]

\* Header.merge(src): a nil src is skipped; an entry of src replaces the entry
\* of dst with the same key.
merge(dst, src) ==
  IF IsNil(src) THEN dst
  ELSE [alg |-> IF Val(src).alg # "" THEN Val(src).alg ELSE dst.alg,
        enc |-> IF Val(src).enc # "" THEN Val(src).enc ELSE dst.enc]

\* json.Unmarshal of a header's JSON text: white space is skipped, the text is
\* null or an object of members, and the last member of a repeated key wins.
Members(b) == SelectSeq(b, LAMBDA t : t # TokWS)

WellFormedObject(m) ==
  /\ Len(m) >= 2
  /\ m[1] = TokLB
  /\ m[Len(m)] = TokRB
  /\ \A i \in 2..(Len(m) - 1) : m[i] \in {TokAlg1, TokAlg2, TokEnc1}

LastIndex(m, toks) ==
  LET idx == {i \in 1..Len(m) : m[i] \in toks}
  IN IF idx = {} THEN 0 ELSE CHOOSE i \in idx : \A j \in idx : j <= i

AlgOf(m) ==
  LET i == LastIndex(m, {TokAlg1, TokAlg2})
  IN IF i = 0 THEN "" ELSE IF m[i] = TokAlg1 THEN "A1" ELSE "A2"

EncOf(m) == IF LastIndex(m, {TokEnc1}) = 0 THEN "" ELSE "E1"

unmarshalHeader(b) ==
  LET m == Members(b)
  IN IF m = << TokNull >> THEN [err |-> FALSE, isNull |-> TRUE, h |-> EmptyHeader]
     ELSE IF WellFormedObject(m)
       THEN [err |-> FALSE, isNull |-> FALSE, h |-> [alg |-> AlgOf(m), enc |-> EncOf(m)]]
       ELSE [err |-> TRUE, isNull |-> FALSE, h |-> EmptyHeader]

\* mustSerializeJSON of a *Header: null for nil, else the non-empty fields in
\* the order of the struct.
marshalHeader(h) ==
  IF IsNil(h) THEN << TokNull >>
  ELSE << TokLB >>
       \o (IF Val(h).alg = "A1" THEN << TokAlg1 >>
           ELSE IF Val(h).alg = "A2" THEN << TokAlg2 >> ELSE <<>>)
       \o (IF Val(h).enc = "E1" THEN << TokEnc1 >> ELSE <<>>)
       \o << TokRB >>

\* -------------------------------------------------------- encodedBuffer
\* An *encodedBuffer is Nil or Some(bytes).
newBuffer(data) == data

\* bytes(): nil for a nil buffer.
bytes(buf) == buf

BytesOf(data) == IF IsNil(data) THEN <<>> ELSE Val(data)

\* base64(): the base64url text of the buffer's bytes.
base64(buf) == base64URLEncode(BytesOf(bytes(buf)))

\* encodedBuffer.UnmarshalJSON: an absent member and the empty string leave
\* no bytes; anything else is base64url-decoded.
unmarshalBuffer(t) ==
  IF IsNil(t) \/ Val(t) = <<>> THEN [err |-> FALSE, buf |-> Nil]
  ELSE LET d == base64URLDecode(Val(t))
       IN [err |-> d.err, buf |-> IF d.err THEN Nil ELSE Some(d.data)]

\* byteBuffer.MarshalJSON under omitempty.
marshalBuffer(buf) == IF IsNil(buf) THEN Nil ELSE Some(base64(buf))

\* ----------------------------------------------------------------- errors
ErrNone == "nil"
ErrFiveParts == "compact JWE format must have five parts"
ErrBase64 == "illegal base64 data"
ErrJSON == "json error"
ErrProtectedHeader == "invalid protected header"
ErrMissingAlgEnc == "message is missing alg/enc headers"
ErrNotSupported == "ErrNotSupported"

Ok(o) == [obj |-> Some(o), err |-> ErrNone]
Fail(e) == [obj |-> Nil, err |-> e]

\* --------------------------------------------------- rawJsonWebEncryption
\* json.Unmarshal of the message's JSON text into a rawJsonWebEncryption.
unmarshalRaw(json) ==
  IF IsNil(json) THEN [err |-> ErrJSON, raw |-> Nil]
  ELSE
    LET d == Val(json)
        p == unmarshalBuffer(d.protected)
        a == unmarshalBuffer(d.aad)
        k == unmarshalBuffer(d.encrypted_key)
        i == unmarshalBuffer(d.iv)
        c == unmarshalBuffer(d.ciphertext)
        t == unmarshalBuffer(d.tag)
    IN IF p.err \/ a.err \/ k.err \/ i.err \/ c.err \/ t.err
       THEN [err |-> ErrBase64, raw |-> Nil]
       ELSE [err |-> ErrNone,
             raw |-> Some([Protected |-> p.buf,
                           Unprotected |-> d.unprotected,
                           Header |-> d.header,
                           Recipients |->
                             [r \in 1..Len(d.recipients) |->
                               [Header |-> d.recipients[r].header,
                                EncryptedKey |-> d.recipients[r].encrypted_key]],
                           Aad |-> a.buf,
                           EncryptedKey |-> k.buf,
                           Iv |-> i.buf,
                           Ciphertext |-> c.buf,
                           Tag |-> t.buf])]

\* mustSerializeJSON of a rawJsonWebEncryption: omitempty drops nil pointers
\* and the empty recipients array.
marshalRaw(raw) ==
  [protected |-> marshalBuffer(raw.Protected),
   unprotected |-> raw.Unprotected,
   header |-> raw.Header,
   recipients |->
     [r \in 1..Len(raw.Recipients) |->
       [header |-> raw.Recipients[r].Header,
        encrypted_key |-> raw.Recipients[r].EncryptedKey]],
   aad |-> marshalBuffer(raw.Aad),
   encrypted_key |-> marshalBuffer(raw.EncryptedKey),
   iv |-> marshalBuffer(raw.Iv),
   ciphertext |-> marshalBuffer(raw.Ciphertext),
   tag |-> marshalBuffer(raw.Tag)]


\* mergedHeaders merging the unprotected header before the protected one.
mergedHeaders_swapped(obj, recipient) ==
  LET out1 == merge(EmptyHeader, obj.unprotected)
      out2 == merge(out1, obj.protected)
  IN IF ~IsNil(recipient) THEN merge(out2, Val(recipient).header) ELSE out2

\* ------------------------------------------------------ JsonWebEncryption
mergedHeaders(obj, recipient) ==
  LET out1 == merge(EmptyHeader, obj.protected)
      out2 == merge(out1, obj.unprotected)
  IN IF ~IsNil(recipient) THEN merge(out2, Val(recipient).header) ELSE out2


\* computeAuthData serializing the decoded header anew.
computeAuthData_reserialized(obj) ==
  LET protected == base64URLEncode(marshalHeader(obj.protected))
  IN IF ~IsNil(obj.aad)
     THEN protected \o << DOT >> \o base64URLEncode(Val(obj.aad))
     ELSE protected

computeAuthData(obj) ==
  LET protected ==
        IF ~IsNil(obj.original) THEN base64(Val(obj.original).Protected)
        ELSE base64URLEncode(marshalHeader(obj.protected))
  IN IF ~IsNil(obj.aad)
     THEN protected \o << DOT >> \o base64URLEncode(Val(obj.aad))
     ELSE protected

\* ParseEncrypted's two parsers return [obj, err]: Ok(obj) or Fail(err).


\* buildRecipients giving every recipient the top-level header.
buildRecipients_topHeader(parsed) ==
  IF Len(parsed.Recipients) = 0
  THEN [err |-> ErrNone,
        recipients |-> << [header |-> parsed.Header,
                           encryptedKey |-> bytes(parsed.EncryptedKey)] >>]
  ELSE
    LET key(r) == base64URLDecode(parsed.Recipients[r].EncryptedKey)
    IN IF \E r \in 1..Len(parsed.Recipients) : key(r).err
       THEN [err |-> ErrBase64, recipients |-> <<>>]
       ELSE [err |-> ErrNone,
             recipients |->
               [r \in 1..Len(parsed.Recipients) |->
                 [header |-> parsed.Header,
                  encryptedKey |-> Some(key(r).data)]]]

\* parseEncryptedFull, lines 130-148: the recipient list of a parsed message.
buildRecipients(parsed) ==
  IF Len(parsed.Recipients) = 0
  THEN [err |-> ErrNone,
        recipients |-> << [header |-> parsed.Header,
                           encryptedKey |-> bytes(parsed.EncryptedKey)] >>]
  ELSE
    LET key(r) == base64URLDecode(parsed.Recipients[r].EncryptedKey)
    IN IF \E r \in 1..Len(parsed.Recipients) : key(r).err
       THEN [err |-> ErrBase64, recipients |-> <<>>]
       ELSE [err |-> ErrNone,
             recipients |->
               [r \in 1..Len(parsed.Recipients) |->
                 [header |-> parsed.Recipients[r].Header,
                  encryptedKey |-> Some(key(r).data)]]]


\* headersComplete looking at the first recipient only.
headersComplete_firstOnly(obj) ==
  LET headers == mergedHeaders(obj, Some(obj.recipients[1]))
  IN ~(headers.alg = "" \/ headers.enc = "")

\* headersComplete asking for alg only.
headersComplete_algOnly(obj) ==
  \A r \in 1..Len(obj.recipients) :
    LET headers == mergedHeaders(obj, Some(obj.recipients[r]))
    IN ~(headers.alg = "")

\* parseEncryptedFull, lines 150-155: every recipient's merged headers name
\* alg and enc.
headersComplete(obj) ==
  \A r \in 1..Len(obj.recipients) :
    LET headers == mergedHeaders(obj, Some(obj.recipients[r]))
    IN ~(headers.alg = "" \/ headers.enc = "")

\* parseEncryptedFull, lines 123-128: the protected header of a parsed message.
decodeProtected(parsed) ==
  IF ~IsNil(parsed.Protected) /\ Len(BytesOf(bytes(parsed.Protected))) > 0
  THEN LET u == unmarshalHeader(BytesOf(bytes(parsed.Protected)))
       IN [err |-> u.err, protected |-> IF u.err \/ u.isNull THEN Nil ELSE Some(u.h)]
  ELSE [err |-> FALSE, protected |-> Nil]

parseEncryptedFull(json) ==
  LET u == unmarshalRaw(json)
  IN IF u.err # ErrNone THEN Fail(u.err)
     ELSE
       LET parsed == Val(u.raw)
           p == decodeProtected(parsed)
           rs == buildRecipients(parsed)
           obj == [protected |-> p.protected,
                   unprotected |-> parsed.Unprotected,
                   recipients |-> rs.recipients,
                   aad |-> bytes(parsed.Aad),
                   iv |-> bytes(parsed.Iv),
                   ciphertext |-> bytes(parsed.Ciphertext),
                   tag |-> bytes(parsed.Tag),
                   original |-> Some(parsed)]
       IN IF p.err THEN Fail(ErrProtectedHeader)
          ELSE IF rs.err # ErrNone THEN Fail(rs.err)
          ELSE IF ~headersComplete(obj) THEN Fail(ErrMissingAlgEnc)
          ELSE Ok(obj)

EmptyRaw ==
  [Protected |-> Nil, Unprotected |-> Nil, Header |-> Nil, Recipients |-> <<>>,
   Aad |-> Nil, EncryptedKey |-> Nil, Iv |-> Nil, Ciphertext |-> Nil, Tag |-> Nil]


\* wrongPartCount letting more than five parts through.
wrongPartCount_atLeast(parts) == Len(parts) < 5

\* parseEncryptedCompact, line 168: the number of parts of a compact message.
wrongPartCount(parts) == Len(parts) # 5


\* compactObject with iv and tag exchanged.
compactObject_swapped(rawProtected, protected, encryptedKey, iv, ciphertext, tag) ==
  [protected |-> Some(protected),
   unprotected |-> Nil,
   recipients |-> << [header |-> Nil, encryptedKey |-> Some(encryptedKey)] >>,
   aad |-> Nil,
   iv |-> Some(tag),
   ciphertext |-> Some(ciphertext),
   tag |-> Some(iv),
   original |->
     Some([EmptyRaw EXCEPT
             !.Protected = newBuffer(Some(rawProtected)),
             !.EncryptedKey = newBuffer(Some(encryptedKey)),
             !.Iv = newBuffer(Some(iv)),
             !.Ciphertext = newBuffer(Some(ciphertext)),
             !.Tag = newBuffer(Some(tag))])]

\* parseEncryptedCompact, lines 207-224: the object of a compact message.
compactObject(rawProtected, protected, encryptedKey, iv, ciphertext, tag) ==
  [protected |-> Some(protected),
   unprotected |-> Nil,
   recipients |-> << [header |-> Nil, encryptedKey |-> Some(encryptedKey)] >>,
   aad |-> Nil,
   iv |-> Some(iv),
   ciphertext |-> Some(ciphertext),
   tag |-> Some(tag),
   original |->
     Some([EmptyRaw EXCEPT
             !.Protected = newBuffer(Some(rawProtected)),
             !.EncryptedKey = newBuffer(Some(encryptedKey)),
             !.Iv = newBuffer(Some(iv)),
             !.Ciphertext = newBuffer(Some(ciphertext)),
             !.Tag = newBuffer(Some(tag))])]

parseEncryptedCompact(input) ==
  LET parts == Split(input, DOT)
  IN IF wrongPartCount(parts) THEN Fail(ErrFiveParts)
     ELSE
       LET rawProtected == base64URLDecode(parts[1])
           u == unmarshalHeader(rawProtected.data)
           protected == u.h
           encryptedKey == base64URLDecode(parts[2])
           iv == base64URLDecode(parts[3])
           ciphertext == base64URLDecode(parts[4])
           tag == base64URLDecode(parts[5])
       IN IF rawProtected.err THEN Fail(ErrBase64)
          ELSE IF u.err THEN Fail(ErrJSON)
          ELSE IF protected.alg = "" \/ protected.enc = "" THEN Fail(ErrMissingAlgEnc)
          ELSE IF encryptedKey.err THEN Fail(ErrBase64)
          ELSE IF iv.err THEN Fail(ErrBase64)
          ELSE IF ciphertext.err THEN Fail(ErrBase64)
          ELSE IF tag.err THEN Fail(ErrBase64)
          ELSE Ok(compactObject(rawProtected.data, protected, encryptedKey.data,
                                iv.data, ciphertext.data, tag.data))

\* A Text is [chars, json]: the characters of the string, and, for a string
\* that starts with '{', what follows as the JSON object it denotes (Nil when
\* it is not well-formed JSON).
ParseEncrypted(input) ==
  LET stripped == stripWhitespace(input.chars)
  IN IF HasPrefix(stripped, LBRACE) THEN parseEncryptedFull(input.json)
     ELSE parseEncryptedCompact(stripped)


\* CompactSerialize that does not look at the recipient's header.
CompactSerialize_noHeaderCheck(obj) ==
  IF Len(obj.recipients) > 1 \/ ~IsNil(obj.unprotected)
  THEN [text |-> <<>>, err |-> ErrNotSupported]
  ELSE
    LET serializedProtected == marshalHeader(obj.protected)
    IN [text |-> Join(<< base64URLEncode(serializedProtected),
                         base64URLEncode(BytesOf(obj.recipients[1].encryptedKey)),
                         base64URLEncode(BytesOf(obj.iv)),
                         base64URLEncode(BytesOf(obj.ciphertext)),
                         base64URLEncode(BytesOf(obj.tag)) >>, DOT),
        err |-> ErrNone]

CompactSerialize(obj) ==
  IF Len(obj.recipients) > 1 \/ ~IsNil(obj.unprotected)
     \/ ~IsNil(obj.recipients[1].header)
  THEN [text |-> <<>>, err |-> ErrNotSupported]
  ELSE
    LET serializedProtected == marshalHeader(obj.protected)
    IN [text |-> Join(<< base64URLEncode(serializedProtected),
                         base64URLEncode(BytesOf(obj.recipients[1].encryptedKey)),
                         base64URLEncode(BytesOf(obj.iv)),
                         base64URLEncode(BytesOf(obj.ciphertext)),
                         base64URLEncode(BytesOf(obj.tag)) >>, DOT),
        err |-> ErrNone]

\* The rawJsonWebEncryption FullSerialize builds (lines 246-270).
fullRaw(obj) ==
  LET raw0 == [EmptyRaw EXCEPT
                 !.Unprotected = obj.unprotected,
                 !.Iv = newBuffer(obj.iv),
                 !.Ciphertext = newBuffer(obj.ciphertext),
                 !.EncryptedKey = newBuffer(obj.recipients[1].encryptedKey),
                 !.Tag = newBuffer(obj.tag),
                 !.Aad = newBuffer(obj.aad)]
      raw1 == IF Len(obj.recipients) > 1
              THEN [raw0 EXCEPT
                      !.Recipients =
                        [r \in 1..Len(obj.recipients) |->
                          [Header |-> obj.recipients[r].header,
                           EncryptedKey |->
                             base64URLEncode(BytesOf(obj.recipients[r].encryptedKey))]]]
              ELSE [raw0 EXCEPT
                      !.Header = obj.recipients[1].header,
                      !.EncryptedKey = newBuffer(obj.recipients[1].encryptedKey)]
  IN [raw1 EXCEPT !.Protected = newBuffer(Some(marshalHeader(obj.protected)))]

FullSerialize(obj) == marshalRaw(fullRaw(obj))

VARIABLES
  input,      \* Nil, or Some(the Text handed to ParseEncrypted)
  obj,        \* Nil, or Some(the JsonWebEncryption at hand)
  err,        \* the error of the last operation
  op,         \* the last operation
  out,        \* Nil, or Some(the Text the last serializer returned)
  src,        \* Nil, or Some(the JsonWebEncryption that was serialized into input)
  authData,   \* Nil, or Some(what computeAuthData returned)
  merged,     \* Nil, or Some(what mergedHeaders returned)
  recipient   \* mergedHeaders' argument: 0 for nil, else the recipient's place

vars == << input, obj, err, op, out, src, authData, merged, recipient >>

\* ---------------------------------------------------------------- inputs
SeqsUpTo(S, n) == UNION {[1..k -> S] : k \in 0..n}

\* All equal to e but the one at place p, which is d.
OneOff(n, p, d, e) == [i \in 1..n |-> IF i = p THEN d ELSE e]

Text(chars) == [chars |-> chars, json |-> Nil]
JSONText(json) == [chars |-> << LBRACE >>, json |-> json]

Headers == [alg : {"", "A1", "A2"}, enc : {"", "E1"}]
MaybeHeaders == {Nil} \cup {Some(h) : h \in Headers}
FewHeaders ==
  {Nil, Some(EmptyHeader), Some([alg |-> "A2", enc |-> ""]), Some([alg |-> "", enc |-> "E1"])}
EntryHeaders ==
  {Nil, Some([alg |-> "A2", enc |-> ""]), Some([alg |-> "A1", enc |-> "E1"])}

\* JSON texts of a protected header: the objects of at most MaxMembers
\* members, and texts with white space, null, a truncated object, no JSON.
HeaderDocs ==
  {<< TokLB >> \o m \o << TokRB >> : m \in SeqsUpTo({TokAlg1, TokAlg2, TokEnc1}, MaxMembers)}
  \cup {<< TokWS, TokLB, TokEnc1, TokWS, TokAlg1, TokRB >>,
        << TokNull >>, << TokBad >>, << TokLB, TokAlg1 >>, <<>>}

SpareBits(t) == [t EXCEPT ![Len(t)] = @ + 1]

ProtTexts ==
  {base64URLEncode(d) : d \in HeaderDocs}
  \cup {<< BANG >>, << 0 >>,
        SpareBits(base64URLEncode(<< TokLB, TokAlg1, TokEnc1, TokRB >>))}

DataBytes == SeqsUpTo({9, 250}, MaxBytes)
DataTexts == {base64URLEncode(b) : b \in DataBytes} \cup {<< BANG >>}

Spaced(s) == [i \in 1..(2 * Len(s)) |-> IF i % 2 = 1 THEN SPACE ELSE s[i \div 2]]

CompactChars(h, n, p, d, e) == Join(<< h >> \o OneOff(n - 1, p, d, e), DOT)

\* The compact inputs: 1..MaxParts parts, a protected part and data parts,
\* and the five-part ones again with white space between the characters.
InitCompact ==
  \E h \in ProtTexts, n \in 1..MaxParts, p \in 1..4, d \in DataTexts, e \in DataTexts :
    \/ input = Some(Text(CompactChars(h, n, p, d, e)))
    \/ n = 5 /\ input = Some(Text(Spaced(CompactChars(h, n, p, d, e))))

\* The JSON inputs: the headers and the recipients varied over fixed buffers,
\* the buffers varied over fixed headers, and a text that is not JSON.
JSONProtected ==
  {Nil, Some(<<>>), Some(<< BANG >>)}
  \cup {Some(base64URLEncode(d)) :
          d \in {<< TokLB, TokAlg1, TokEnc1, TokRB >>,
                 << TokLB, TokEnc1, TokWS, TokAlg1, TokRB >>,
                 << TokLB, TokAlg1, TokRB >>, << TokLB, TokEnc1, TokRB >>,
                 << TokLB, TokRB >>, << TokNull >>, << TokBad >>}}

KeyTexts == {<<>>, base64URLEncode(<< 9 >>), << BANG >>}
Entries == [header : EntryHeaders, encrypted_key : KeyTexts]
MaybeData == {Nil} \cup {Some(t) : t \in DataTexts \cup {<<>>}}

BaseDoc ==
  [protected |-> Some(base64URLEncode(<< TokLB, TokAlg1, TokEnc1, TokRB >>)),
   unprotected |-> Nil, header |-> Nil, recipients |-> <<>>,
   aad |-> Nil, encrypted_key |-> Nil,
   iv |-> Some(base64URLEncode(<< 9 >>)),
   ciphertext |-> Some(base64URLEncode(<< 250, 9 >>)),
   tag |-> Some(base64URLEncode(<< 250 >>))]

InitFlattened ==
  \E p \in JSONProtected, u \in FewHeaders, h \in MaybeHeaders,
     k \in {Nil, Some(base64URLEncode(<< 9 >>))} :
    input = Some(JSONText(Some([BaseDoc EXCEPT !.protected = p, !.unprotected = u,
                                               !.header = h, !.encrypted_key = k])))

InitGeneral ==
  \E p \in JSONProtected, u \in FewHeaders,
     h \in {Nil, Some([alg |-> "A1", enc |-> "E1"])},
     n \in 1..MaxRecipients, d \in Entries, e \in Entries :
    \E i \in 1..n :
      input = Some(JSONText(Some([BaseDoc EXCEPT !.protected = p, !.unprotected = u,
                                                 !.header = h,
                                                 !.recipients = OneOff(n, i, d, e)])))

InitBuffers ==
  \/ \E a \in MaybeData, p \in JSONProtected :
       input = Some(JSONText(Some([BaseDoc EXCEPT !.aad = a, !.protected = p])))
  \/ \E a \in MaybeData, k \in MaybeData, i \in 1..3, d \in MaybeData, e \in MaybeData :
       input = Some(JSONText(Some([BaseDoc EXCEPT
                                     !.aad = a, !.encrypted_key = k,
                                     !.iv = OneOff(3, i, d, e)[1],
                                     !.ciphertext = OneOff(3, i, d, e)[2],
                                     !.tag = OneOff(3, i, d, e)[3]])))
  \/ input = Some(JSONText(Nil))
  \/ input = Some([chars |-> << SPACE, LBRACE >>, json |-> Some(BaseDoc)])

\* Envelopes built directly (no original): at least one recipient, and every
\* recipient's merged headers name alg and enc.
MaybeBytes == {Nil} \cup {Some(b) : b \in DataBytes}

BaseEnvelope ==
  [protected |-> Some([alg |-> "A1", enc |-> "E1"]), unprotected |-> Nil,
   recipients |-> << [header |-> Nil, encryptedKey |-> Some(<< 9 >>)] >>,
   aad |-> Nil, iv |-> Some(<< 9 >>), ciphertext |-> Some(<< 250, 9 >>),
   tag |-> Some(<< 250 >>), original |-> Nil]

Infos == [header : EntryHeaders, encryptedKey : MaybeBytes]

\* Envelopes that differ in their headers and recipients.
HeaderEnvelope(p, u, n, i, d, e) ==
  [BaseEnvelope EXCEPT !.protected = p, !.unprotected = u,
                       !.recipients = OneOff(n, i, d, e)]

\* Envelopes that differ in their byte strings.
BufferEnvelope(a, i, d, e) ==
  [BaseEnvelope EXCEPT !.aad = a, !.iv = OneOff(3, i, d, e)[1],
                       !.ciphertext = OneOff(3, i, d, e)[2],
                       !.tag = OneOff(3, i, d, e)[3]]

\* ------------------------------------------------------------------ state
Init ==
  /\ \/ input = Nil
     \/ InitCompact
     \/ InitFlattened
     \/ InitGeneral
     \/ InitBuffers
  /\ obj = Nil
  /\ err = ErrNone
  /\ op = "init"
  /\ out = Nil
  /\ src = Nil
  /\ authData = Nil
  /\ merged = Nil
  /\ recipient = 0

Parse ==
  /\ op = "init"
  /\ ~IsNil(input)
  /\ LET r == ParseEncrypted(Val(input))
     IN /\ obj' = r.obj
        /\ err' = r.err
  /\ op' = "ParseEncrypted"
  /\ UNCHANGED << input, out, src, authData, merged, recipient >>

Construct ==
  /\ op = "init"
  /\ IsNil(input)
  /\ \/ \E p \in MaybeHeaders, u \in FewHeaders, n \in 1..MaxRecipients,
           d \in Infos, e \in Infos :
          \E i \in 1..n :
            /\ headersComplete(HeaderEnvelope(p, u, n, i, d, e))
            /\ obj' = Some(HeaderEnvelope(p, u, n, i, d, e))
     \/ \E a \in MaybeBytes, i \in 1..3, d \in MaybeBytes, e \in MaybeBytes :
          obj' = Some(BufferEnvelope(a, i, d, e))
  /\ op' = "construct"
  /\ UNCHANGED << input, err, out, src, authData, merged, recipient >>

Built == op \in {"ParseEncrypted", "construct"} /\ ~IsNil(obj)

DoCompactSerialize ==
  /\ Built
  /\ LET r == CompactSerialize(Val(obj))
     IN /\ out' = IF r.err = ErrNone THEN Some(Text(r.text)) ELSE Nil
        /\ err' = r.err
  /\ op' = "CompactSerialize"
  /\ UNCHANGED << input, obj, src, authData, merged, recipient >>

DoFullSerialize ==
  /\ Built
  /\ out' = Some(JSONText(Some(FullSerialize(Val(obj)))))
  /\ err' = ErrNone
  /\ op' = "FullSerialize"
  /\ UNCHANGED << input, obj, src, authData, merged, recipient >>

DoComputeAuthData ==
  /\ Built
  /\ authData' = Some(computeAuthData(Val(obj)))
  /\ op' = "computeAuthData"
  /\ UNCHANGED << input, obj, err, out, src, merged, recipient >>

DoMergedHeaders ==
  /\ Built
  /\ \E r \in 0..Len(Val(obj).recipients) :
       /\ merged' = Some(mergedHeaders(Val(obj),
                           IF r = 0 THEN Nil ELSE Some(Val(obj).recipients[r])))
       /\ recipient' = r
  /\ op' = "mergedHeaders"
  /\ UNCHANGED << input, obj, err, out, src, authData >>

\* ParseEncrypted applied to what a serializer returned.
Reparse ==
  /\ op \in {"CompactSerialize", "FullSerialize"}
  /\ ~IsNil(out)
  /\ LET r == ParseEncrypted(Val(out))
     IN /\ obj' = r.obj
        /\ err' = r.err
  /\ input' = out
  /\ src' = obj
  /\ op' = "reparse"
  /\ UNCHANGED << out, authData, merged, recipient >>

Next ==
  \/ Parse
  \/ Construct
  \/ DoCompactSerialize
  \/ DoFullSerialize
  \/ DoComputeAuthData
  \/ DoMergedHeaders
  \/ Reparse

Spec == Init /\ [][Next]_vars

\* ----------------------------------------------------------- properties
\* What the properties say about the input of the first ParseEncrypted.
FirstParse == op = "ParseEncrypted" /\ ~IsNil(input)
Stripped == stripWhitespace(Val(input).chars)
IsJSON == HasPrefix(Stripped, LBRACE)
Parts == Split(Stripped, DOT)
Doc == Val(Val(input).json)

\* The value of key k after laying the present headers of hs over an empty
\* header, in order: that of the last header with an entry for k.
Overlay(hs, k) ==
  LET idx == {i \in 1..Len(hs) : ~IsNil(hs[i]) /\ Val(hs[i])[k] # ""}
  IN IF idx = {} THEN ""
     ELSE Val(hs[CHOOSE i \in idx : \A j \in idx : j <= i])[k]

\* The protected-header bytes as received in the input.
ReceivedProtected ==
  IF IsJSON
  THEN IF IsNil(Doc.protected) THEN <<>> ELSE base64URLDecode(Val(Doc.protected)).data
  ELSE base64URLDecode(Parts[1]).data

\* C1: computeAuthData of an object ParseEncrypted returned is the base64url
\* text of the protected-header bytes as received, alone when the object has
\* no aad, and followed by "." and the base64url text of aad when it has one.
C1_AuthDataFromOriginalBytes ==
  (op = "computeAuthData" /\ ~IsNil(input)) =>
    authData = Some(IF IsNil(Val(obj).aad)
                    THEN base64URLEncode(ReceivedProtected)
                    ELSE base64URLEncode(ReceivedProtected) \o << DOT >>
                         \o base64URLEncode(Val(Val(obj).aad)))

\* C1's case: a parsed object with aad whose received protected bytes are not
\* what serializing its decoded protected header gives.
C1_Witness ==
  /\ op = "computeAuthData"
  /\ ~IsNil(input)
  /\ ~IsNil(Val(obj).aad)
  /\ ReceivedProtected # marshalHeader(Val(obj).protected)
  /\ Len(Val(authData)) > Len(base64URLEncode(ReceivedProtected))

CompactEligible(o) ==
  /\ Len(o.recipients) = 1
  /\ IsNil(o.unprotected)
  /\ IsNil(o.recipients[1].header)

\* C2: CompactSerialize returns ErrNotSupported and no text exactly when the
\* object has more than one recipient, an unprotected header or a header on
\* its recipient; otherwise it returns no error and five parts separated by
\* ".": the base64url texts of the serialized protected header, the encrypted
\* key, iv, ciphertext and tag.
C2_CompactSerializeShape ==
  op = "CompactSerialize" =>
    IF CompactEligible(Val(obj))
    THEN /\ err = ErrNone
         /\ ~IsNil(out)
         /\ Split(Val(out).chars, DOT) =
              << base64URLEncode(marshalHeader(Val(obj).protected)),
                 base64URLEncode(BytesOf(Val(obj).recipients[1].encryptedKey)),
                 base64URLEncode(BytesOf(Val(obj).iv)),
                 base64URLEncode(BytesOf(Val(obj).ciphertext)),
                 base64URLEncode(BytesOf(Val(obj).tag)) >>
    ELSE err = ErrNotSupported /\ IsNil(out)

\* C2's case: an eligible object serialized, with a non-empty key, iv and tag.
C2_Witness ==
  /\ op = "CompactSerialize"
  /\ CompactEligible(Val(obj))
  /\ ~IsNil(out)
  /\ BytesOf(Val(obj).recipients[1].encryptedKey) # <<>>
  /\ BytesOf(Val(obj).iv) # <<>>
  /\ BytesOf(Val(obj).tag) # <<>>

\* C3: FullSerialize of an object with more than one recipient has a
\* recipients array with one entry per recipient, in order, and neither a
\* top-level header nor a top-level encrypted_key; of an object with one
\* recipient it has no recipients array and that recipient's header and
\* encrypted key at the top level.
C3_FullSerializeShapesExclusive ==
  op = "FullSerialize" =>
    LET doc == Val(Val(out).json)
        o == Val(obj)
    IN IF Len(o.recipients) > 1
       THEN /\ Len(doc.recipients) = Len(o.recipients)
            /\ \A r \in 1..Len(o.recipients) :
                 doc.recipients[r] =
                   [header |-> o.recipients[r].header,
                    encrypted_key |->
                      base64URLEncode(BytesOf(o.recipients[r].encryptedKey))]
            /\ IsNil(doc.header)
            /\ IsNil(doc.encrypted_key)
       ELSE /\ doc.recipients = <<>>
            /\ doc.header = o.recipients[1].header
            /\ doc.encrypted_key =
                 IF IsNil(o.recipients[1].encryptedKey) THEN Nil
                 ELSE Some(base64URLEncode(Val(o.recipients[1].encryptedKey)))

\* C4: ParseEncrypted of what CompactSerialize returned for an object with one
\* recipient, no unprotected header, no recipient header and a protected
\* header with alg and enc succeeds, and the merged header, iv, ciphertext,
\* tag and the recipient's encrypted key are those of that object.
C4_CompactRoundTrip ==
  (/\ op = "reparse"
   /\ IsNil(Val(input).json)
   /\ CompactEligible(Val(src))
   /\ Overlay(<< Val(src).protected >>, "alg") # ""
   /\ Overlay(<< Val(src).protected >>, "enc") # "") =>
    /\ err = ErrNone
    /\ ~IsNil(obj)
    /\ Len(Val(obj).recipients) = 1
    /\ mergedHeaders(Val(obj), Some(Val(obj).recipients[1]))
         = Val(Val(src).protected)
    /\ BytesOf(Val(obj).iv) = BytesOf(Val(src).iv)
    /\ BytesOf(Val(obj).ciphertext) = BytesOf(Val(src).ciphertext)
    /\ BytesOf(Val(obj).tag) = BytesOf(Val(src).tag)
    /\ BytesOf(Val(obj).recipients[1].encryptedKey)
         = BytesOf(Val(src).recipients[1].encryptedKey)

\* C4's case: a round trip of an object with an empty encrypted key and an iv
\* that differs from its tag.
C4_Witness ==
  /\ op = "reparse"
  /\ IsNil(Val(input).json)
  /\ err = ErrNone
  /\ CompactEligible(Val(src))
  /\ BytesOf(Val(src).recipients[1].encryptedKey) = <<>>
  /\ BytesOf(Val(src).iv) # BytesOf(Val(src).tag)
  /\ BytesOf(Val(obj).iv) # <<>>

SomePartInvalid == \E i \in 1..Len(Parts) : ~ValidBase64(Parts[i])

HeaderOfPart == unmarshalHeader(base64URLDecode(Parts[1]).data)

DocProtected ==
  IF IsNil(Doc.protected) \/ Val(Doc.protected) = <<>> THEN Nil
  ELSE LET u == unmarshalHeader(base64URLDecode(Val(Doc.protected)).data)
       IN IF u.isNull THEN Nil ELSE Some(u.h)

DocRecipientHeaders ==
  IF Len(Doc.recipients) = 0 THEN << Doc.header >>
  ELSE [r \in 1..Len(Doc.recipients) |-> Doc.recipients[r].header]

DocDecodes ==
  /\ ~IsNil(Val(input).json)
  /\ \A f \in {Doc.protected, Doc.aad, Doc.encrypted_key, Doc.iv, Doc.ciphertext, Doc.tag} :
       IsNil(f) \/ ValidBase64(Val(f))
  /\ IsNil(Doc.protected)
       \/ Val(Doc.protected) = <<>>
       \/ ~unmarshalHeader(base64URLDecode(Val(Doc.protected)).data).err
  /\ \A r \in 1..Len(Doc.recipients) : ValidBase64(Doc.recipients[r].encrypted_key)

\* C6: every object ParseEncrypted returns has, for each recipient, non-empty
\* alg and enc in the protected header overlaid by the unprotected header
\* overlaid by the recipient's header; and a JSON input that decodes and has a
\* recipient for which this fails gets the missing-alg/enc error and no object.
C6_MergedAlgEncPresent ==
  FirstParse =>
    /\ err = ErrNone =>
         /\ ~IsNil(obj)
         /\ \A r \in 1..Len(Val(obj).recipients) :
              \A k \in {"alg", "enc"} :
                Overlay(<< Val(obj).protected, Val(obj).unprotected,
                           Val(obj).recipients[r].header >>, k) # ""
    /\ (/\ IsJSON
        /\ DocDecodes
        /\ \E r \in 1..Len(DocRecipientHeaders) :
             \E k \in {"alg", "enc"} :
               Overlay(<< DocProtected, Doc.unprotected, DocRecipientHeaders[r] >>, k) = "")
       => (err = ErrMissingAlgEnc /\ IsNil(obj))

\* C6's case: a JSON input of two recipients accepted, alg coming from a
\* recipient's header.
C6_Witness ==
  /\ FirstParse
  /\ IsJSON
  /\ err = ErrNone
  /\ Len(Val(obj).recipients) = 2
  /\ Overlay(<< Val(obj).protected, Val(obj).unprotected >>, "alg") = ""

DocProtectedLacksEnc ==
  /\ IsJSON
  /\ DocDecodes
  /\ ~IsNil(DocProtected)
  /\ Val(DocProtected).enc = ""

\* C7 as stated: a JSON input whose decoded protected header has no enc fails
\* with the missing-alg/enc error.
C7_ProtectedWithoutEncFails ==
  (FirstParse /\ DocProtectedLacksEnc) => (err = ErrMissingAlgEnc /\ IsNil(obj))

\* C7 amended: a JSON input whose decoded protected header has no enc, whose
\* unprotected header has none and one of whose recipients has none in its
\* header fails with the missing-alg/enc error, whether or not a recipient's
\* header names alg.
C7_NoEncAnywhereFails ==
  (/\ FirstParse
   /\ DocProtectedLacksEnc
   /\ Overlay(<< Doc.unprotected >>, "enc") = ""
   /\ \E r \in 1..Len(DocRecipientHeaders) :
        Overlay(<< DocRecipientHeaders[r] >>, "enc") = "")
  => (err = ErrMissingAlgEnc /\ IsNil(obj))

\* C7's case: no enc anywhere, and alg named by a recipient's header.
C7_Witness ==
  /\ FirstParse
  /\ DocProtectedLacksEnc
  /\ Overlay(<< Doc.unprotected >>, "enc") = ""
  /\ Len(DocRecipientHeaders) = 2
  /\ \A r \in 1..2 : Overlay(<< DocRecipientHeaders[r] >>, "enc") = ""
  /\ \A r \in 1..2 : Overlay(<< DocRecipientHeaders[r] >>, "alg") # ""
  /\ err = ErrMissingAlgEnc

\* C8: FullSerialize of an object ParseEncrypted returned gives as protected
\* the base64url text of the protected-header bytes as received, and parsing
\* its output gives an object with the same computeAuthData protected part.
C8_FullSerializeEchoesOriginal ==
  /\ (op = "FullSerialize" /\ ~IsNil(Val(obj).original)) =>
       Val(Val(out).json).protected = marshalBuffer(Val(Val(obj).original).Protected)
  /\ (op = "reparse" /\ IsJSON /\ ~IsNil(Val(src).original) /\ ~IsNil(obj)) =>
       base64(Val(Val(obj).original).Protected)
         = base64(Val(Val(src).original).Protected)

\* C9: mergedHeaders returns the protected header overlaid by the unprotected
\* header overlaid by the recipient's header (when a recipient is given),
\* absent ones skipped, and leaves the object as ParseEncrypted returned it.
C9_MergedHeadersOverlay ==
  op = "mergedHeaders" =>
    LET o == Val(obj)
        hs == << o.protected, o.unprotected >>
              \o (IF recipient = 0 THEN <<>> ELSE << o.recipients[recipient].header >>)
    IN /\ merged = Some([alg |-> Overlay(hs, "alg"), enc |-> Overlay(hs, "enc")])
       /\ ~IsNil(input) => obj = ParseEncrypted(Val(input)).obj

\* C9's case: alg in the protected header and another alg in the recipient's.
C9_Witness ==
  /\ op = "mergedHeaders"
  /\ recipient > 0
  /\ Overlay(<< Val(obj).protected >>, "alg") = "A1"
  /\ Overlay(<< Val(obj).unprotected >>, "enc") = "E1"
  /\ Overlay(<< Val(obj).recipients[recipient].header >>, "alg") = "A2"
  /\ Val(merged).alg = "A2"

\* C10: the JSON parser's recipient list: with no recipients array, one
\* recipient with the top-level header and encrypted key (no key gives an
\* empty one); with an array, one recipient per entry, in order, with the
\* entry's header and decoded key; and an entry with a bad key fails the
\* parse.
C10_RecipientList ==
  (FirstParse /\ IsJSON /\ ~IsNil(Val(input).json)) =>
    /\ err = ErrNone =>
         /\ Len(Val(obj).recipients) >= 1
         /\ IF Len(Doc.recipients) = 0
            THEN Val(obj).recipients =
                   << [header |-> Doc.header,
                       encryptedKey |->
                         IF IsNil(Doc.encrypted_key) \/ Val(Doc.encrypted_key) = <<>>
                         THEN Nil
                         ELSE Some(base64URLDecode(Val(Doc.encrypted_key)).data)] >>
            ELSE /\ Len(Val(obj).recipients) = Len(Doc.recipients)
                 /\ \A r \in 1..Len(Doc.recipients) :
                      Val(obj).recipients[r] =
                        [header |-> Doc.recipients[r].header,
                         encryptedKey |->
                           Some(base64URLDecode(Doc.recipients[r].encrypted_key).data)]
    /\ (\E r \in 1..Len(Doc.recipients) : ~ValidBase64(Doc.recipients[r].encrypted_key))
         => (IsNil(obj) /\ err # ErrNone)

\* C10's case: an array of two entries with different headers, accepted.
C10_Witness ==
  /\ FirstParse
  /\ IsJSON
  /\ err = ErrNone
  /\ Len(Doc.recipients) = 2
  /\ Doc.recipients[1].header # Doc.recipients[2].header
  /\ ~IsNil(Doc.header)

====
